---- MODULE Spec2Model ----
(***************************************************************************)
(* Geofenced check-in validation of the attendance application.            *)
(*                                                                         *)
(* Times of day are minutes after midnight (0..1439); a timestamp is a     *)
(* record [day, tod].  Coordinates are micro-degrees (the DecimalFields    *)
(* keep 6 decimal places).  Distances are millimetres, looked up in a      *)
(* table computed with the haversine formula of the source.                *)
(***************************************************************************)
EXTENDS Integers, Sequences, FiniteSets, TLC

VARIABLES now, groups, periods, checkins, summaries, reqs, last, context,
          memberships, users

vars == <<now, groups, periods, checkins, summaries, reqs, last, context,
          memberships, users>>

----------------------------------------------------------------------------
(* Bounds of the model *)

MaxDay == 2
MaxPeriods == 2
MaxCheckins == 2
MaxEvents == 3

(* Program constants *)

DefaultRadius == 100
EarlyArrivalMinutes == 5
VeryLateCheckoutMinutes == 60
NoPeriod == 0

MinutesPerDay == 24 * 60
NoDistance == 0 - 1

Days == 1..MaxDay
\* One employee, member of the group, and two requests in flight at most.
Employees == {1}
GroupIds == {1}
Reqs == {1, 2}

HM(h, m) == h * 60 + m

\* Day 1 of the model is a Friday, day 2 a Saturday, and so on.
isoweekday(day) == ((day + 3) % 7) + 1

\* The instants the clock of the model visits within a day.
ClockTimes == {HM(0, 10), HM(8, 58), HM(9, 20), HM(17, 5)}

\* Reported coordinates <<latitude, longitude>>.
PointNear == <<600, 500>>
PointLatZeroFar == <<0, 2500>>
PointFar == <<3000, 500>>
Points == {PointNear, PointLatZeroFar, PointFar}

GroupCentre == <<500, 500>>

----------------------------------------------------------------------------
(* AttendanceGroup.is_within_radius *)

\* haversine(lon1, lat1, lon2, lat2) in millimetres, rounded up, with
\* r = 6371000 m.  Rounding up keeps every comparison against a whole number
\* of metres: d <= radius exactly when ceil(1000 d) <= 1000 radius.
haversine(lon1, lat1, lon2, lat2) ==
    CASE <<lat1, lon1>> = <<lat2, lon2>> -> 0
      [] <<lat1, lon1, lat2, lon2>> = <<500, 500, 600, 500>> -> 11120
      [] <<lat1, lon1, lat2, lon2>> = <<500, 500, 0, 2500>> -> 229235
      [] <<lat1, lon1, lat2, lon2>> = <<500, 500, 3000, 500>> -> 277988
      [] <<lat1, lon1, lat2, lon2>> = <<500, 500, 0, 0>> -> 78627
      [] <<lat1, lon1, lat2, lon2>> = <<500, 500, 524, 1399>> -> 100000
      [] <<lat1, lon1, lat2, lon2>> = <<500, 500, 716, 1373>> -> 100001
      [] <<lat1, lon1, lat2, lon2>> = <<500, 500, 1399, 500>> -> 100000
      [] <<lat1, lon1, lat2, lon2>> = <<500, 500, 10000000, 10000000>> -> 1568441933
      [] <<lat1, lon1, lat2, lon2>> = <<0, 0, 600, 500>> -> 86847
      [] <<lat1, lon1, lat2, lon2>> = <<0, 0, 0, 2500>> -> 277988
      [] <<lat1, lon1, lat2, lon2>> = <<0, 0, 3000, 500>> -> 338187
      [] <<lat1, lon1, lat2, lon2>> = <<0, 0, 500, 500>> -> 78627
      [] <<lat1, lon1, lat2, lon2>> = <<0, 0, 524, 1399>> -> 166116
      [] <<lat1, lon1, lat2, lon2>> = <<0, 0, 716, 1373>> -> 172183
      [] <<lat1, lon1, lat2, lon2>> = <<0, 0, 1399, 500>> -> 165233
      [] <<lat1, lon1, lat2, lon2>> = <<0, 0, 10000000, 10000000>> -> 1568520557

is_within_radius_strict(g, user_lat, user_lon) ==
    haversine(g.longitude, g.latitude, user_lon, user_lat) < g.radius * 1000

is_within_radius(g, user_lat, user_lon) ==
    haversine(g.longitude, g.latitude, user_lon, user_lat) <= g.radius * 1000

----------------------------------------------------------------------------
(* Period *)

weekday_list(p) == {p.weekdays[i] : i \in 1..Len(p.weekdays)}

is_applicable_today(p) == isoweekday(now.day) \in weekday_list(p)

\* (combine(today, start_time) - timedelta(minutes=grace)).time(): the date
\* is dropped, so a start earlier than the grace wraps to the evening before.
grace_start(p) ==
    (p.start_time - p.late_checkin_grace_minutes + MinutesPerDay) % MinutesPerDay

\* check_time is <<>> for None (then the clock is read) or <<timestamp>>.
is_within_checkin_time(p, check_time) ==
    LET check_time_only == IF check_time = <<>> THEN now.tod ELSE check_time[1].tod
    IN  grace_start(p) <= check_time_only /\ check_time_only <= p.end_time

----------------------------------------------------------------------------
(* CheckIn.save: the persistence hook that computes distance and status.   *)
(* timestamp is <<>> while the instance has none yet (auto_now_add fills   *)
(* it in only inside super().save()), or <<ts>> when the caller passed one. *)

CheckInStatus == {"ON_TIME", "LATE", "EARLY", "INVALID_LOCATION", "INVALID_TIME"}

\* `if self.latitude and self.longitude and self.attendance_group`: a
\* coordinate equal to 0 is falsy.
save_validates(latitude, longitude) == latitude # 0 /\ longitude # 0

save_distance(latitude, longitude, g) ==
    IF save_validates(latitude, longitude)
    THEN haversine(g.longitude, g.latitude, longitude, latitude)
    ELSE NoDistance

\* The elif branch is entered: located inside, a period is attached and the
\* time is outside its check-in window.
save_time_branch(latitude, longitude, g, p, timestamp) ==
    /\ save_validates(latitude, longitude)
    /\ is_within_radius(g, latitude, longitude)
    /\ p # NoPeriod
    /\ ~is_within_checkin_time(periods[p], timestamp)

\* `self.timestamp.time()` on an instance whose timestamp is still None.
save_raises(latitude, longitude, g, p, timestamp) ==
    save_time_branch(latitude, longitude, g, p, timestamp) /\ timestamp = <<>>

save_status(latitude, longitude, g, p, timestamp, status) ==
    IF ~save_validates(latitude, longitude) THEN status
    ELSE IF ~is_within_radius(g, latitude, longitude) THEN "INVALID_LOCATION"
    ELSE IF save_time_branch(latitude, longitude, g, p, timestamp)
         THEN LET check_time == timestamp[1].tod
              IN  IF check_time > periods[p].end_time THEN "INVALID_TIME"
                  ELSE IF check_time > periods[p].start_time THEN "LATE"
                  ELSE "EARLY"
    ELSE status

\* The row CheckIn.objects.create(...) inserts.  The stored timestamp is the
\* clock at insertion (auto_now_add), whatever the caller passed;
\* validated_at is the time of day the hook judged.
NewCheckIn(employee, group, p, timestamp, latitude, longitude, type, status, via) ==
    [ id |-> Len(checkins) + 1,
      employee |-> employee,
      attendance_group |-> group,
      period |-> p,
      timestamp |-> now,
      validated_at |-> IF timestamp = <<>> THEN now.tod ELSE timestamp[1].tod,
      latitude |-> latitude,
      longitude |-> longitude,
      type |-> type,
      status |-> save_status(latitude, longitude, groups[group], p, timestamp, status),
      distance_from_location |-> save_distance(latitude, longitude, groups[group]),
      via |-> via ]

----------------------------------------------------------------------------
(* Requests in flight and the response last sent *)

IdleReq ==
    [ pc |-> "idle", employee |-> 0, group |-> 0, latitude |-> 0, longitude |-> 0 ]

NoResponse ==
    [ kind |-> "none", employee |-> 0, latitude |-> 0, longitude |-> 0,
      checkin_id |-> 0, resp |-> "none" ]

\* The JsonResponse of a POST, with the form fields it answers.
Respond(kind, e, lat, lon, cid, resp) ==
    last' = [ kind |-> kind, employee |-> e, latitude |-> lat, longitude |-> lon,
              checkin_id |-> cid, resp |-> resp ]

----------------------------------------------------------------------------
(* AttendanceGroupMembership: the rows of the many-to-many relation          *)
(* AttendanceGroup.employees.  removed_at is NoTime while it is NULL.        *)

NoTime == [day |-> 0, tod |-> 0]

RECURSIVE SetToSeq(_)
SetToSeq(S) ==
    IF S = {} THEN <<>>
    ELSE LET x == CHOOSE y \in S : \A z \in S : y <= z
         IN  <<x>> \o SetToSeq(S \ {x})

\* Every employee assigned to every group of gs, one active row each.
InitialMemberships(gs) ==
    LET pairs == SetToSeq({(e - 1) * 10 + g : e \in Employees, g \in gs})
    IN  [i \in 1..Len(pairs) |->
            [ employee |-> ((pairs[i] - 1) \div 10) + 1,
              attendance_group |-> ((pairs[i] - 1) % 10) + 1,
              is_active |-> TRUE,
              removed_at |-> NoTime ]]

\* The rows of (employee, group), active or not.
MembershipRows(e, g) ==
    {i \in 1..Len(memberships) :
        memberships[i].employee = e /\ memberships[i].attendance_group = g}

\* AttendanceGroup.objects.filter(employees=user): the join over the through
\* table finds the group when a membership row exists, whatever its is_active.
InEmployees(e, g) == MembershipRows(e, g) # {}

----------------------------------------------------------------------------
(* check_in view *)

\* attendance_group.periods.filter(is_active=True) under Meta.ordering
\* ['group', 'start_time']: every order of the group's active periods that
\* is sorted by start_time (rows with equal start_time come in any order).
ActivePeriodIds(g) ==
    {i \in 1..Len(periods) : periods[i].group = g /\ periods[i].is_active}

\* The faulty ordering: rows in creation (id) order, as a query without
\* Meta.ordering would return them.
SortedByCreation(o) ==
    \A i, j \in 1..Len(o) : i < j => o[i] < o[j]

SortedByStartTime(o) ==
    \A i, j \in 1..Len(o) :
        i < j => periods[o[i]].start_time <= periods[o[j]].start_time

PeriodOrders(g) ==
    LET ids == ActivePeriodIds(g)
        n == Cardinality(ids)
    IN  {o \in [1..n -> ids] :
            /\ \A i, j \in 1..n : i # j => o[i] # o[j]
            /\ SortedByStartTime(o)}

PeriodMatchesNow(p) == is_applicable_today(p) /\ is_within_checkin_time(p, <<>>)

\* The for loop with break: the first period of the order that applies.
ApplicablePeriod(order) ==
    LET hits == {i \in 1..Len(order) : PeriodMatchesNow(periods[order[i]])}
    IN  IF hits = {} THEN NoPeriod
        ELSE order[CHOOSE i \in hits : \A j \in hits : i <= j]

ExistingCheckin(e, g) ==
    \E i \in 1..Len(checkins) :
        /\ checkins[i].employee = e
        /\ checkins[i].attendance_group = g
        /\ checkins[i].timestamp.day = now.day
        /\ checkins[i].type = "IN"

\* Lines 59-92: the group lookup, the radius test and the duplicate query.
CheckInPost(r, e, g, lat, lon) ==
    /\ reqs[r].pc = "idle"
    /\ IF ~groups[g].is_active \/ ~InEmployees(e, g)
       THEN Respond("IN", e, lat, lon, 0, "failed_not_found") /\ UNCHANGED reqs
       ELSE IF ~is_within_radius(groups[g], lat, lon)
       THEN Respond("IN", e, lat, lon, 0, "not_in_area") /\ UNCHANGED reqs
       ELSE IF ExistingCheckin(e, g)
       THEN Respond("IN", e, lat, lon, 0, "already_checked_in") /\ UNCHANGED reqs
       ELSE /\ reqs' = [reqs EXCEPT ![r] =
                  [ pc |-> "create", employee |-> e, group |-> g,
                    latitude |-> lat, longitude |-> lon ]]
            /\ UNCHANGED last
    /\ UNCHANGED <<now, groups, periods, checkins, summaries, context,
                 memberships, users>>

\* Lines 94-127: the period loop, the insert and the response.
CheckInCreate(r) ==
    /\ reqs[r].pc = "create"
    /\ Len(checkins) < MaxCheckins
    /\ \E order \in PeriodOrders(reqs[r].group) :
         LET q == reqs[r]
             p == ApplicablePeriod(order)
         IN  IF save_raises(q.latitude, q.longitude, groups[q.group], p, <<>>)
             THEN /\ Respond("IN", q.employee, q.latitude, q.longitude, 0,
                             "failed_attribute_error")
                  /\ UNCHANGED checkins
             ELSE /\ checkins' = Append(checkins,
                        NewCheckIn(q.employee, q.group, p, <<>>, q.latitude,
                                   q.longitude, "IN", "ON_TIME", "check_in"))
                  /\ Respond("IN", q.employee, q.latitude, q.longitude, 0, "success")
    /\ reqs' = [reqs EXCEPT ![r] = IdleReq]
    /\ UNCHANGED <<now, groups, periods, summaries, context,
                 memberships, users>>

----------------------------------------------------------------------------
(* check_out view, POST branch (lines 165-204) *)

CheckOut(e, checkin_id, lat, lon) ==
    /\ Len(checkins) < MaxCheckins
    /\ IF ~(/\ checkin_id \in 1..Len(checkins)
            /\ checkins[checkin_id].employee = e
            /\ checkins[checkin_id].type = "IN")
       THEN /\ Respond("OUT", e, lat, lon, checkin_id, "failed_not_found")
            /\ UNCHANGED checkins
       ELSE LET original_checkin == checkins[checkin_id]
                g == original_checkin.attendance_group
                p == original_checkin.period
            IN  IF save_raises(lat, lon, groups[g], p, <<>>)
                THEN /\ Respond("OUT", e, lat, lon, checkin_id,
                                "failed_attribute_error")
                     /\ UNCHANGED checkins
                ELSE /\ checkins' = Append(checkins,
                            NewCheckIn(e, g, p, <<>>, lat, lon, "OUT", "ON_TIME",
                                       "check_out"))
                     /\ Respond("OUT", e, lat, lon, checkin_id, "success")
    /\ UNCHANGED <<now, groups, periods, summaries, reqs, context,
                 memberships, users>>

----------------------------------------------------------------------------
(* period_create view, POST branch *)

Weekdays15 == <<1, 2, 3, 4, 5>>
Weekdays17 == <<1, 2, 3, 4, 5, 6, 7>>

\* The forms submitted: <<name, start_time, end_time, weekdays, late, early>>.
PeriodForms ==
    { <<"Day", HM(9, 0), HM(17, 0), Weekdays15, 15, 15>>,
      <<"Morning", HM(8, 30), HM(12, 0), Weekdays15, 30, 15>>,
      <<"Half", HM(9, 0), HM(12, 0), Weekdays15, 15, 15>>,
      <<"Night", HM(0, 5), HM(6, 0), Weekdays17, 15, 15>> }

PeriodFormValid(g, f) ==
    /\ f[2] < f[3]
    /\ f[5] >= 0 /\ f[5] <= 120 /\ f[6] >= 0 /\ f[6] <= 120
    /\ \A i \in 1..Len(f[4]) : f[4][i] \in 1..7
    /\ ~\E i \in 1..Len(periods) : periods[i].group = g /\ periods[i].name = f[1]

PeriodCreate(g, f) ==
    /\ Len(periods) < MaxPeriods
    /\ PeriodFormValid(g, f)
    /\ periods' = Append(periods,
          [ id |-> Len(periods) + 1, name |-> f[1], group |-> g,
            start_time |-> f[2], end_time |-> f[3], weekdays |-> f[4],
            late_checkin_grace_minutes |-> f[5],
            early_checkout_grace_minutes |-> f[6],
            is_active |-> TRUE ])
    /\ UNCHANGED <<now, groups, checkins, summaries, reqs, last, context,
                 memberships, users>>

----------------------------------------------------------------------------
(* seed_checkins: Command.generate_daily_attendance *)

Abs(x) == IF x < 0 THEN 0 - x ELSE x

\* generate_location_near_group: the offsets are drawn within
\* radius * 0.8 / 111000 degrees of latitude and
\* radius * 0.8 / (111000 * |lat| / 90) degrees of longitude.
\* (In micro-degrees, the longitude bound scaled down by 10^6, rounding up.)
SeedLocations(g) ==
    {pt \in Points :
        /\ Abs(pt[1] - g.latitude) * 111 <= g.radius * 800
        /\ (Abs(pt[2] - g.longitude) * 111 * Abs(g.latitude) + 999999) \div 1000000
              <= g.radius * 72000}

\* The faulty seeder: it passes the status name create_sample_data uses.
SeedCheckinStatusApproved(variation_minutes, p) == "APPROVED"

SeedCheckinStatus(variation_minutes, p) ==
    IF variation_minutes > p.late_checkin_grace_minutes THEN "LATE"
    ELSE IF variation_minutes < 0 - EarlyArrivalMinutes THEN "EARLY"
    ELSE "ON_TIME"

SeedCheckoutStatus(checkout_variation, p) ==
    IF checkout_variation < 0 - p.early_checkout_grace_minutes THEN "EARLY"
    ELSE IF checkout_variation > VeryLateCheckoutMinutes THEN "LATE"
    ELSE "ON_TIME"

\* datetime.combine(date, base) + timedelta(minutes=variation)
SeedTimestamp(date, base, variation) ==
    LET m == base + variation
    IN  IF m < 0 THEN [day |-> date - 1, tod |-> m + MinutesPerDay]
        ELSE IF m >= MinutesPerDay THEN [day |-> date + 1, tod |-> m - MinutesPerDay]
        ELSE [day |-> date, tod |-> m]

\* random.randint(-15, 30) and random.randint(-30, 60), sampled.
SeedVariations == {0 - 10, 0, 20}
SeedCheckoutVariations == {0 - 30, 5}

SeedDailyAttendance(e, g, p, date, variation, pt, with_checkout, checkout_variation, pt2) ==
    /\ Len(checkins) + (IF with_checkout THEN 2 ELSE 1) <= MaxCheckins
    /\ p \in ActivePeriodIds(g)
    /\ isoweekday(date) <= 5
    /\ isoweekday(date) \in weekday_list(periods[p])
    /\ groups[g].latitude # 0
    /\ pt \in SeedLocations(groups[g])
    /\ pt2 \in SeedLocations(groups[g])
    /\ LET checkin ==
               NewCheckIn(e, g, p,
                   <<SeedTimestamp(date, periods[p].start_time, variation)>>,
                   pt[1], pt[2], "IN", SeedCheckinStatus(variation, periods[p]),
                   "seed_checkins")
           checkout ==
               [ NewCheckIn(e, g, p,
                     <<SeedTimestamp(date, periods[p].end_time, checkout_variation)>>,
                     pt2[1], pt2[2], "OUT",
                     SeedCheckoutStatus(checkout_variation, periods[p]),
                     "seed_checkins")
                 EXCEPT !.id = Len(checkins) + 2 ]
       IN  checkins' = IF with_checkout
                       THEN Append(Append(checkins, checkin), checkout)
                       ELSE Append(checkins, checkin)
    /\ UNCHANGED <<now, groups, periods, summaries, reqs, last, context,
                 memberships, users>>

----------------------------------------------------------------------------
(* group_edit view, POST branch (lines 549-621) *)

MinRadius == 10
MaxRadius == 5000
MaxLatitude == 90 * 1000000
MaxLongitude == 180 * 1000000

Origin == <<0, 0>>

\* The forms submitted: <<latitude, longitude, radius>>.
GroupForms ==
    { <<GroupCentre[1], GroupCentre[2], MinRadius>>,
      <<GroupCentre[1], GroupCentre[2], DefaultRadius>>,
      <<GroupCentre[1], GroupCentre[2], MaxRadius>>,
      <<Origin[1], Origin[2], DefaultRadius>>,
      <<GroupCentre[1], GroupCentre[2], MinRadius - 5>> }

GroupFormValidNoUpperRadius(f) ==
    /\ 0 - MaxLatitude <= f[1] /\ f[1] <= MaxLatitude
    /\ 0 - MaxLongitude <= f[2] /\ f[2] <= MaxLongitude
    /\ MinRadius <= f[3]

GroupFormValid(f) ==
    /\ 0 - MaxLatitude <= f[1] /\ f[1] <= MaxLatitude
    /\ 0 - MaxLongitude <= f[2] /\ f[2] <= MaxLongitude
    /\ MinRadius <= f[3] /\ f[3] <= MaxRadius

\* The lookup has no is_active filter; an invalid form re-renders the page.
GroupEdit(g, f) ==
    /\ groups' = IF GroupFormValid(f)
                 THEN [groups EXCEPT ![g].latitude = f[1],
                                     ![g].longitude = f[2],
                                     ![g].radius = f[3]]
                 ELSE groups
    /\ UNCHANGED <<now, periods, checkins, summaries, reqs, last, context,
                 memberships, users>>

----------------------------------------------------------------------------
(* group_create view, POST branch (lines 448-520), and group_delete        *)

MaxGroups == 2

\* Forms <<latitude, longitude, radius>> at and just past every bound.
GroupBoundForms ==
    { <<GroupCentre[1], GroupCentre[2], MinRadius>>,
      <<MaxLatitude, 0 - MaxLongitude, MaxRadius>>,
      <<0 - MaxLatitude, MaxLongitude, DefaultRadius>>,
      <<Origin[1], Origin[2], DefaultRadius>>,
      <<GroupCentre[1], GroupCentre[2], MaxRadius>>,
      <<GroupCentre[1], GroupCentre[2], MinRadius - 1>>,
      <<GroupCentre[1], GroupCentre[2], MaxRadius + 1>>,
      <<MaxLatitude + 1, GroupCentre[2], DefaultRadius>>,
      <<0 - MaxLatitude - 1, GroupCentre[2], DefaultRadius>>,
      <<GroupCentre[1], MaxLongitude + 1, DefaultRadius>>,
      <<GroupCentre[1], 0 - MaxLongitude - 1, DefaultRadius>> }

\* Group names are not kept in the model: whether the name of the form is
\* already used in the company is an input of the request.
GroupCreate(f, name_exists) ==
    /\ Len(groups) < MaxGroups
    /\ name_exists => Len(groups) > 0
    /\ groups' = IF GroupFormValid(f) /\ ~name_exists
                 THEN Append(groups,
                        [ latitude |-> f[1], longitude |-> f[2],
                          radius |-> f[3], is_active |-> TRUE ])
                 ELSE groups
    /\ UNCHANGED <<now, periods, checkins, summaries, reqs, last, context,
                 memberships, users>>

GroupDeleteUnguarded(g) ==
    /\ g \in DOMAIN groups
    /\ groups' = [groups EXCEPT ![g].is_active = FALSE]
    /\ periods' = [i \in 1..Len(periods) |->
          IF periods[i].group = g
          THEN [periods[i] EXCEPT !.is_active = FALSE]
          ELSE periods[i]]
    /\ UNCHANGED <<now, checkins, summaries, reqs, last, context,
                 memberships, users>>

\* Refused while the group has a check-in dated today; otherwise the group
\* and all its periods are deactivated (lines 657-672).
GroupDelete(g) ==
    /\ g \in DOMAIN groups
    /\ LET active_checkins ==
               Cardinality({i \in 1..Len(checkins) :
                   /\ checkins[i].attendance_group = g
                   /\ checkins[i].timestamp.day = now.day})
       IN  IF active_checkins > 0
           THEN UNCHANGED <<groups, periods>>
           ELSE /\ groups' = [groups EXCEPT ![g].is_active = FALSE]
                /\ periods' = [i \in 1..Len(periods) |->
                      IF periods[i].group = g
                      THEN [periods[i] EXCEPT !.is_active = FALSE]
                      ELSE periods[i]]
    /\ UNCHANGED <<now, checkins, summaries, reqs, last, context,
                 memberships, users>>

----------------------------------------------------------------------------
(* group_manage_employees (assign, remove), group_remove_employee and        *)
(* employee_delete                                                           *)

\* get_or_create(employee, attendance_group) and, when the row is new or
\* inactive, is_active = True and removed_at = None.
AssignEmployee(e, g) ==
    /\ users[e].is_active
    /\ g \in DOMAIN groups
    /\ memberships' =
          IF MembershipRows(e, g) = {}
          THEN Append(memberships,
                 [ employee |-> e, attendance_group |-> g,
                   is_active |-> TRUE, removed_at |-> NoTime ])
          ELSE LET i == CHOOSE j \in MembershipRows(e, g) : TRUE
               IN  IF memberships[i].is_active THEN memberships
                   ELSE [memberships EXCEPT ![i].is_active = TRUE,
                                            ![i].removed_at = NoTime]
    /\ UNCHANGED <<now, groups, periods, checkins, summaries, reqs, last,
                 context, users>>

\* AttendanceGroupMembership.deactivate on the active row of (e, g), from the
\* 'remove' action of group_manage_employees or from group_remove_employee;
\* without an active row nothing is written.
RemoveEmployee(e, g) ==
    /\ g \in DOMAIN groups
    /\ memberships' =
          [i \in 1..Len(memberships) |->
              IF i \in MembershipRows(e, g) /\ memberships[i].is_active
              THEN [memberships[i] EXCEPT !.is_active = FALSE, !.removed_at = now]
              ELSE memberships[i]]
    /\ UNCHANGED <<now, groups, periods, checkins, summaries, reqs, last,
                 context, users>>

\* employee.is_active = False and
\* employee.attendancegroupmembership_set.update(is_active=False).
EmployeeDelete(e) ==
    /\ users' = [users EXCEPT ![e].is_active = FALSE]
    /\ memberships' =
          [i \in 1..Len(memberships) |->
              IF memberships[i].employee = e
              THEN [memberships[i] EXCEPT !.is_active = FALSE]
              ELSE memberships[i]]
    /\ UNCHANGED <<now, groups, periods, checkins, summaries, reqs, last,
                 context>>

\* employee_edit: employee.is_active = (POST 'is_active' == 'on'); the
\* memberships are not touched.
EmployeeEdit(e, is_active) ==
    /\ users' = [users EXCEPT ![e].is_active = is_active]
    /\ UNCHANGED <<now, groups, periods, checkins, summaries, reqs, last,
                 context, memberships>>

\* login_required: only an active user has a session to post from.
EmployeeCheckInPost(r, e, g, lat, lon) ==
    /\ users[e].is_active
    /\ CheckInPost(r, e, g, lat, lon)

----------------------------------------------------------------------------
(* period_edit view, POST branch (lines 825-898), and period_delete *)

PeriodEditFormValid(p, f) ==
    /\ f[2] < f[3]
    /\ f[5] >= 0 /\ f[5] <= 120 /\ f[6] >= 0 /\ f[6] <= 120
    /\ \A i \in 1..Len(f[4]) : f[4][i] \in 1..7
    /\ ~\E i \in 1..Len(periods) :
          i # p /\ periods[i].group = periods[p].group /\ periods[i].name = f[1]

PeriodEdit(p, f) ==
    /\ p \in 1..Len(periods)
    /\ periods' = IF PeriodEditFormValid(p, f)
                  THEN [periods EXCEPT ![p].name = f[1],
                                       ![p].start_time = f[2],
                                       ![p].end_time = f[3],
                                       ![p].weekdays = f[4],
                                       ![p].late_checkin_grace_minutes = f[5],
                                       ![p].early_checkout_grace_minutes = f[6]]
                  ELSE periods
    /\ UNCHANGED <<now, groups, checkins, summaries, reqs, last, context,
                 memberships, users>>

\* Refused while the period has check-ins dated today; otherwise a soft delete.
PeriodDelete(p) ==
    /\ p \in 1..Len(periods)
    /\ LET active_checkins ==
               Cardinality({i \in 1..Len(checkins) :
                   /\ checkins[i].period = p
                   /\ checkins[i].timestamp.day = now.day})
       IN  periods' = IF active_checkins > 0 THEN periods
                      ELSE [periods EXCEPT ![p].is_active = FALSE]
    /\ UNCHANGED <<now, groups, checkins, summaries, reqs, last, context,
                 memberships, users>>

----------------------------------------------------------------------------
(* CheckInAdmin: the change form of the admin site saved as it was loaded. *)
(* ModelAdmin.save_model calls CheckIn.save on the stored instance: the     *)
(* timestamp is the stored one (auto_now_add fills it on insert only), and  *)
(* distance and status are computed again from the group and the period as  *)
(* they are now.                                                            *)

CheckInAdminSave(i) ==
    /\ i \in 1..Len(checkins)
    /\ LET c == checkins[i]
           g == groups[c.attendance_group]
       IN  checkins' = [checkins EXCEPT ![i] =
               [ c EXCEPT
                   !.validated_at = c.timestamp.tod,
                   !.status = save_status(c.latitude, c.longitude, g, c.period,
                                          <<c.timestamp>>, c.status),
                   !.distance_from_location =
                       IF save_validates(c.latitude, c.longitude)
                       THEN haversine(g.longitude, g.latitude, c.longitude, c.latitude)
                       ELSE c.distance_from_location ]]
    /\ UNCHANGED <<now, groups, periods, summaries, reqs, last, context,
                 memberships, users>>

----------------------------------------------------------------------------
(* create_sample_data: Command.handle *)

\* The command returns at line 35 when its first company exists.  Otherwise
\* it creates companies, branches, departments and groups of its own and
\* then calls Period.objects.create(grace_period_minutes=...,
\* late_threshold_minutes=...) at line 155: Period has no such fields, the
\* model constructor raises TypeError and the command ends there.  The loop
\* of lines 205-313, the only code that computes AttendanceSummary rows (and
\* that passes CheckInStatus.APPROVED and is_early_departure, which do not
\* exist either), is never reached: no check-in and no summary is stored.
CreateSampleData(already_exists) ==
    /\ Respond("create_sample_data", 0, 0, 0, 0,
               IF already_exists THEN "skipped" ELSE "failed_type_error")
    /\ UNCHANGED <<now, groups, periods, checkins, summaries, reqs, context,
                 memberships, users>>

----------------------------------------------------------------------------
(* AttendanceSummaryAdmin: the add form of the admin site.  The table has    *)
(* UniqueConstraint(fields=['employee', 'attendance_group', 'date'],         *)
(* name='unique_daily_attendance_summary').                                  *)

MaxSummaries == 2

no_summary_constraint(e, g, date) == TRUE

\* The constraint admits a new row of this key.
unique_daily_attendance_summary(e, g, date) ==
    ~\E k \in 1..Len(summaries) :
        /\ summaries[k].employee = e
        /\ summaries[k].attendance_group = g
        /\ summaries[k].date = date

SummaryAdminAdd(e, g, date, is_present, is_late) ==
    /\ Len(summaries) < MaxSummaries
    /\ IF unique_daily_attendance_summary(e, g, date)
       THEN /\ summaries' = Append(summaries,
                  [ employee |-> e, attendance_group |-> g, date |-> date,
                    is_present |-> is_present, is_late |-> is_late ])
            /\ Respond("summary_add", e, 0, 0, 0, "success")
       ELSE /\ UNCHANGED summaries
            /\ Respond("summary_add", e, 0, 0, 0, "failed_unique")
    /\ UNCHANGED <<now, groups, periods, checkins, reqs, context,
                 memberships, users>>

----------------------------------------------------------------------------
(* The clock (timezone.now()) *)

Later(a, b) == a.day < b.day \/ (a.day = b.day /\ a.tod < b.tod)

Tick(t) ==
    /\ Later(now, t)
    /\ now' = t
    /\ UNCHANGED <<groups, periods, checkins, summaries, reqs, last, context,
                 memberships, users>>

----------------------------------------------------------------------------
(* dashboard view: today's hours (lines 26-45), in minutes *)

\* CheckIn.objects.filter(employee=user, timestamp__date=today)
\* .order_by('timestamp'): stored timestamps are insertion times, so the
\* order by timestamp is the order of insertion.
today_checkins(rows, e) ==
    SelectSeq(rows, LAMBDA c : c.employee = e /\ c.timestamp.day = now.day)

RECURSIVE PairMinutesAnyTypes(_, _)
PairMinutesAnyTypes(cs, i) ==
    IF i + 1 > Len(cs) THEN 0
    ELSE (cs[i + 1].timestamp.tod - cs[i].timestamp.tod)
             + PairMinutesAnyTypes(cs, i + 2)

RECURSIVE PairMinutes(_, _)
\* for i in range(0, len(checkins) - 1, 2): pairs (i, i+1), counted when the
\* first is an IN and the second an OUT.
PairMinutes(cs, i) ==
    IF i + 1 > Len(cs) THEN 0
    ELSE (IF cs[i].type = "IN" /\ cs[i + 1].type = "OUT"
          THEN cs[i + 1].timestamp.tod - cs[i].timestamp.tod
          ELSE 0) + PairMinutes(cs, i + 2)

today_hours_until_now(rows, e) ==
    LET cs == today_checkins(rows, e)
    IN  (IF Len(cs) >= 2 THEN PairMinutes(cs, 1) ELSE 0)
        + (IF Len(cs) > 0 /\ cs[Len(cs)].type = "IN"
           THEN now.tod - cs[Len(cs)].timestamp.tod ELSE 0)

today_hours(rows, e) ==
    IF Len(today_checkins(rows, e)) >= 2
    THEN PairMinutes(today_checkins(rows, e), 1)
    ELSE 0

\* round(today_hours, 1), in tenths of an hour.  A total of 6q + 3 minutes is
\* a tie that Python settles on the binary value of the float; the ties the
\* clock of the model can form (7.75 h and 16.55 h) both go up.
TiesRoundedUp == {HM(7, 45), HM(16, 33)}

round_tenths(minutes) ==
    LET q == minutes \div 6
        r == minutes % 6
    IN  IF r > 3 \/ (r = 3 /\ minutes \in TiesRoundedUp) THEN q + 1 ELSE q

\* week_start = today - timedelta(days=today.weekday())
week_start == now.day - (isoweekday(now.day) - 1)

\* AttendanceSummary.objects.filter(employee=user, date__gte=week_start,
\* date__lte=today)
week_summaries(e) ==
    SelectSeq(summaries, LAMBDA m :
        m.employee = e /\ week_start <= m.date /\ m.date <= now.day)

week_checkins(rows, e) ==
    SelectSeq(rows, LAMBDA c :
        /\ c.employee = e
        /\ week_start <= c.timestamp.day /\ c.timestamp.day <= now.day)

\* week_checkins.values('timestamp__date').distinct().count()
days_with_checkins(rows, e) ==
    Cardinality({week_checkins(rows, e)[i].timestamp.day :
                    i \in 1..Len(week_checkins(rows, e))})

\* Monday to Friday between week_start and today.
working_days == IF isoweekday(now.day) < 5 THEN isoweekday(now.day) ELSE 5

days_present(rows, e) ==
    IF Len(week_summaries(e)) > 0
    THEN Len(SelectSeq(week_summaries(e), LAMBDA m : m.is_present))
    ELSE days_with_checkins(rows, e)

NoContext ==
    [ employee |-> 0, current_time |-> [day |-> 0, tod |-> 0],
      today_status |-> FALSE, total_checkins |-> 0, hours_worked |-> 0,
      is_checked_in |-> FALSE, first_checkin |-> 0, last_checkin |-> 0,
      days_present |-> 0, total_days |-> 0 ]

\* The context rendered for request.user = e (lines 205-225): today_status,
\* today_stats and the day counts of week_stats.  The view writes nothing.
Dashboard(e) ==
    /\ LET today == today_checkins(checkins, e)
       IN  context' =
             [ employee |-> e,
               current_time |-> now,
               today_status |-> Len(today) > 0,
               total_checkins |-> Len(today),
               hours_worked |-> round_tenths(today_hours(checkins, e)),
               is_checked_in |-> Len(today) > 0 /\ today[Len(today)].type = "IN",
               first_checkin |-> IF Len(today) > 0 THEN today[1].id ELSE 0,
               last_checkin |-> IF Len(today) > 0 THEN today[Len(today)].id ELSE 0,
               days_present |-> days_present(checkins, e),
               total_days |-> working_days ]
    /\ UNCHANGED <<now, groups, periods, checkins, summaries, reqs, last,
                 memberships, users>>

----------------------------------------------------------------------------

Init ==
    /\ now = [day |-> 1, tod |-> HM(0, 10)]
    /\ groups = [g \in GroupIds |->
          [ latitude |-> GroupCentre[1], longitude |-> GroupCentre[2],
            radius |-> DefaultRadius, is_active |-> TRUE ]]
    /\ periods = <<>>
    /\ checkins = <<>>
    /\ summaries = <<>>
    /\ reqs = [r \in Reqs |-> IdleReq]
    /\ last = NoResponse
    /\ context = NoContext
    /\ memberships = InitialMemberships(GroupIds)
    /\ users = [e \in Employees |-> [is_active |-> TRUE]]

Next ==
    \/ \E r \in Reqs, e \in Employees, g \in GroupIds, pt \in Points :
          CheckInPost(r, e, g, pt[1], pt[2])
    \/ \E r \in Reqs : CheckInCreate(r)
    \/ \E e \in Employees, c \in 1..MaxCheckins, pt \in Points :
          CheckOut(e, c, pt[1], pt[2])
    \/ \E g \in GroupIds, f \in PeriodForms : PeriodCreate(g, f)
    \/ \E d \in Days, t \in ClockTimes : Tick([day |-> d, tod |-> t])

Spec == Init /\ [][Next]_vars

\* The check-in view alone, against the periods HR created.
NextCheckIn ==
    \/ \E r \in Reqs, e \in Employees, g \in GroupIds, pt \in Points :
          CheckInPost(r, e, g, pt[1], pt[2])
    \/ \E r \in Reqs : CheckInCreate(r)
    \/ \E g \in GroupIds, f \in PeriodForms : PeriodCreate(g, f)
    \/ \E d \in Days, t \in ClockTimes : Tick([day |-> d, tod |-> t])

SpecCheckIn == Init /\ [][NextCheckIn]_vars

\* The seed_checkins management command run against the periods HR created.
\* The command passes its own timestamps and reads the clock only for the
\* stored auto_now_add value, so one run is modelled at one clock reading.
NextSeed ==
    \/ \E g \in GroupIds, f \in PeriodForms : PeriodCreate(g, f)
    \/ \E e \in Employees, g \in GroupIds, p \in 1..MaxPeriods, date \in Days,
          v \in SeedVariations, pt \in Points, w \in BOOLEAN,
          cv \in SeedCheckoutVariations, pt2 \in Points :
          SeedDailyAttendance(e, g, p, date, v, pt, w, cv, pt2)

SpecSeed == Init /\ [][NextSeed]_vars

\* HR edits the group and its periods and a site administrator saves
\* check-ins again, while an employee checks in (one request at a time, two
\* of the period forms, the clock at 08:58 and 17:05).
AdminPeriodForms == {f \in PeriodForms : f[1] \in {"Day", "Half"}}

NextAdmin ==
    \/ \E e \in Employees, g \in GroupIds, pt \in Points :
          CheckInPost(1, e, g, pt[1], pt[2])
    \/ CheckInCreate(1)
    \/ \E g \in GroupIds, f \in AdminPeriodForms : PeriodCreate(g, f)
    \/ \E p \in 1..MaxPeriods, f \in AdminPeriodForms : PeriodEdit(p, f)
    \/ \E p \in 1..MaxPeriods : PeriodDelete(p)
    \/ \E g \in GroupIds, f \in GroupForms : GroupEdit(g, f)
    \/ \E i \in 1..MaxCheckins : CheckInAdminSave(i)
    \/ \E d \in Days, t \in {HM(8, 58), HM(17, 5)} : Tick([day |-> d, tod |-> t])

SpecAdmin == Init /\ [][NextAdmin]_vars

\* Every path that stores check-ins: the two views, the seed_checkins
\* command and the create_sample_data command, at one clock reading (the
\* seeders pass their own timestamps), one request at a time, with two of
\* the period forms.
NextPaths ==
    \/ \E e \in Employees, g \in GroupIds, pt \in Points :
          CheckInPost(1, e, g, pt[1], pt[2])
    \/ CheckInCreate(1)
    \/ \E e \in Employees, c \in 1..MaxCheckins, pt \in Points :
          CheckOut(e, c, pt[1], pt[2])
    \/ \E g \in GroupIds, f \in AdminPeriodForms : PeriodCreate(g, f)
    \/ \E e \in Employees, g \in GroupIds, date \in Days, v \in SeedVariations,
          w \in BOOLEAN, cv \in SeedCheckoutVariations :
          \E p \in ActivePeriodIds(g), pt, pt2 \in SeedLocations(groups[g]) :
             SeedDailyAttendance(e, g, p, date, v, pt, w, cv, pt2)
    \/ \E x \in BOOLEAN : CreateSampleData(x)

SpecPaths == Init /\ [][NextPaths]_vars

----------------------------------------------------------------------------
\* A manager deactivates the group and creates or edits its periods while an
\* employee checks in and out from inside the fence.
DeleteTimes == {HM(8, 58), HM(17, 5)}

NextGroupDelete ==
    \/ \E e \in Employees, g \in GroupIds :
          CheckInPost(1, e, g, PointNear[1], PointNear[2])
    \/ CheckInCreate(1)
    \/ \E e \in Employees, c \in 1..MaxCheckins :
          CheckOut(e, c, PointNear[1], PointNear[2])
    \/ \E g \in GroupIds, f \in AdminPeriodForms : PeriodCreate(g, f)
    \/ \E p \in 1..MaxPeriods, f \in AdminPeriodForms : PeriodEdit(p, f)
    \/ \E g \in GroupIds : GroupDelete(g)
    \/ \E d \in Days, t \in DeleteTimes : Tick([day |-> d, tod |-> t])

SpecGroupDelete == Init /\ [][NextGroupDelete]_vars

----------------------------------------------------------------------------
\* The writers of AttendanceSummary rows (the admin form and
\* create_sample_data) and the dashboard that reads them.
SummaryTimes == {HM(8, 58)}

NextSummaries ==
    \/ \E e \in Employees, g \in GroupIds, d \in Days, pr, lt \in BOOLEAN :
          SummaryAdminAdd(e, g, d, pr, lt)
    \/ \E x \in BOOLEAN : CreateSampleData(x)
    \/ \E e \in Employees : Dashboard(e)
    \/ \E d \in Days, t \in SummaryTimes : Tick([day |-> d, tod |-> t])

SpecSummaries == Init /\ [][NextSummaries]_vars

----------------------------------------------------------------------------
\* Managers create, edit and deactivate groups, starting without any.
InitGroups ==
    /\ now = [day |-> 1, tod |-> HM(0, 10)]
    /\ groups = <<>>
    /\ periods = <<>>
    /\ checkins = <<>>
    /\ summaries = <<>>
    /\ reqs = [r \in Reqs |-> IdleReq]
    /\ last = NoResponse
    /\ context = NoContext
    /\ memberships = <<>>
    /\ users = [e \in Employees |-> [is_active |-> TRUE]]

NextGroups ==
    \/ \E f \in GroupBoundForms, x \in BOOLEAN : GroupCreate(f, x)
    \/ \E g \in 1..MaxGroups, f \in GroupBoundForms : GroupEdit(g, f)
    \/ \E g \in 1..MaxGroups : GroupDelete(g)

SpecGroups == InitGroups /\ [][NextGroups]_vars

----------------------------------------------------------------------------
\* Managers assign, remove and deactivate an employee who checks in.
MemberTimes == {HM(8, 58)}

NextMembers ==
    \/ \E e \in Employees, g \in GroupIds : AssignEmployee(e, g)
    \/ \E e \in Employees, g \in GroupIds : RemoveEmployee(e, g)
    \/ \E e \in Employees : EmployeeDelete(e)
    \/ \E e \in Employees, b \in BOOLEAN : EmployeeEdit(e, b)
    \/ \E e \in Employees, g \in GroupIds :
          EmployeeCheckInPost(1, e, g, PointNear[1], PointNear[2])
    \/ CheckInCreate(1)
    \/ \E d \in Days, t \in MemberTimes : Tick([day |-> d, tod |-> t])

SpecMembers == Init /\ [][NextMembers]_vars

----------------------------------------------------------------------------
(* Points around the fence *)

\* Latitude 0.0013993216059187306 (written here to the micro-degree) on the
\* meridian of GroupCentre: the float for which the code's haversine returns
\* exactly 100.0, the default radius.
PointOnFence == <<1399, 500>>
\* 99.99985 m and 100.00035 m from GroupCentre.
PointInsideFence == <<524, 1399>>
PointOutsideFence == <<716, 1373>>
\* (10, 10) degrees.
PointTenDegrees == <<10000000, 10000000>>

FencePoints ==
    { GroupCentre, Origin, PointNear, PointOnFence, PointInsideFence,
      PointOutsideFence, PointTenDegrees }

\* Check-ins sent from around the fence while the manager moves and resizes it.
NextGeoFence ==
    \/ \E e \in Employees, g \in GroupIds, pt \in FencePoints :
          CheckInPost(1, e, g, pt[1], pt[2])
    \/ CheckInCreate(1)
    \/ \E g \in GroupIds, f \in GroupForms : GroupEdit(g, f)

SpecGeoFence == Init /\ [][NextGeoFence]_vars

----------------------------------------------------------------------------
(* The check-in tables the dashboard is rendered on *)

\* An employee may belong to several groups (AttendanceGroup.employees is
\* many-to-many); the dashboard is rendered for a member of two.
DashboardGroupIds == {1, 2}

\* The instants at which the rows of a table were inserted.
DashboardTimes == {HM(8, 58), HM(9, 20), HM(17, 5)}

DashboardInstants == {[day |-> d, tod |-> t] : d \in Days, t \in DashboardTimes}

\* The row check_in (IN) or check_out (OUT) stores for a group without
\* periods, sent from PointNear.
ViewRow(id, type, g, ts) ==
    [ id |-> id,
      employee |-> 1,
      attendance_group |-> g,
      period |-> NoPeriod,
      timestamp |-> ts,
      validated_at |-> ts.tod,
      latitude |-> PointNear[1],
      longitude |-> PointNear[2],
      type |-> type,
      status |-> "ON_TIME",
      distance_from_location |->
          haversine(GroupCentre[2], GroupCentre[1], PointNear[2], PointNear[1]),
      via |-> IF type = "IN" THEN "check_in" ELSE "check_out" ]

RECURSIVE TablesOfLen(_)
\* Tables of n rows as the views leave them: inserted at increasing instants,
\* every OUT after an IN of the same group (the check-in it names).  Two INs
\* of one group on one day are the two requests of C2; an OUT may close a
\* check-in of an earlier day.
TablesOfLen(n) ==
    IF n = 0 THEN {<<>>}
    ELSE UNION {
           {Append(t, ViewRow(n, type, g, ts)) :
               <<type, g, ts>> \in
                   {k \in {"IN", "OUT"} \X DashboardGroupIds \X DashboardInstants :
                       /\ n > 1 => Later(t[n - 1].timestamp, k[3])
                       /\ k[1] = "OUT" =>
                             \E i \in 1..(n - 1) :
                                 t[i].type = "IN" /\ t[i].attendance_group = k[2]}}
           : t \in TablesOfLen(n - 1)}

EventTables == UNION {TablesOfLen(n) : n \in 0..MaxEvents}

InitDashboard ==
    /\ checkins \in EventTables
    /\ now = IF checkins = <<>> THEN [day |-> 1, tod |-> HM(0, 10)]
             ELSE checkins[Len(checkins)].timestamp
    /\ groups = [g \in DashboardGroupIds |->
          [ latitude |-> GroupCentre[1], longitude |-> GroupCentre[2],
            radius |-> DefaultRadius, is_active |-> TRUE ]]
    /\ periods = <<>>
    /\ summaries = <<>>
    /\ reqs = [r \in Reqs |-> IdleReq]
    /\ last = NoResponse
    /\ context = NoContext
    /\ memberships = InitialMemberships(DashboardGroupIds)
    /\ users = [e \in Employees |-> [is_active |-> TRUE]]

\* The dashboard rendered, at any later time, on a table of check-ins.
NextDashboard ==
    \/ \E e \in Employees : Dashboard(e)
    \/ \E t \in DashboardInstants : Tick(t)

SpecDashboard == InitDashboard /\ [][NextDashboard]_vars

----------------------------------------------------------------------------
(* Properties *)

Stored == 1..Len(checkins)

InsideFence(c) ==
    is_within_radius(groups[c.attendance_group], c.latitude, c.longitude)

\* A row was inserted by this step; NewRow is that row.
Inserted == Len(checkins') = Len(checkins) + 1
NewRow == checkins'[Len(checkins')]

\* The window test as the specification words it: active, the weekday
\* applies, and the time of day is in [start - late grace, end].
WindowApplies(p, ts) ==
    /\ p.is_active
    /\ isoweekday(ts.day) \in weekday_list(p)
    /\ p.start_time - p.late_checkin_grace_minutes <= ts.tod
    /\ ts.tod <= p.end_time

GroupPeriodIds(g) == {i \in 1..Len(periods) : periods[i].group = g}

\* C1: every stored event reported from farther than the radius has outcome
\* INVALID_LOCATION, whatever its time and type.
C1_OutsideFenceIsInvalidLocation ==
    \A i \in Stored :
        ~InsideFence(checkins[i]) => checkins[i].status = "INVALID_LOCATION"

\* C2: at most one IN event recorded by the check-in view exists per
\* (employee, group, calendar day).
C2_AtMostOneCheckInPerDay ==
    \A i, j \in Stored :
        ( /\ i # j
          /\ checkins[i].via = "check_in" /\ checkins[j].via = "check_in"
          /\ checkins[i].type = "IN" /\ checkins[j].type = "IN"
          /\ checkins[i].employee = checkins[j].employee
          /\ checkins[i].attendance_group = checkins[j].attendance_group )
        => checkins[i].timestamp.day # checkins[j].timestamp.day

\* C3: every answered submission (other than a refused duplicate or a lookup
\* that found nothing) stored exactly one event and was not an exception.
C3_EverySubmissionIsStored ==
    [][ (last' # last /\ last'.resp \notin {"already_checked_in", "failed_not_found"})
        => (Inserted /\ last'.resp = "success") ]_vars

\* C4: an event from inside the fence at a time no active window of the
\* group applies to gets outcome INVALID_TIME and no window.
C4_NoWindowIsInvalidTime ==
    [][ ( /\ Inserted
          /\ InsideFence(NewRow)
          /\ \A q \in GroupPeriodIds(NewRow.attendance_group) :
                ~WindowApplies(periods[q], now) )
        => (NewRow.status = "INVALID_TIME" /\ NewRow.period = NoPeriod) ]_vars

\* The timeliness of an IN as the specification words it.
ExpectedInStatus(p, tod) ==
    IF tod > p.start_time + p.late_checkin_grace_minutes THEN "LATE"
    ELSE IF tod < p.start_time - EarlyArrivalMinutes THEN "EARLY"
    ELSE "ON_TIME"

\* The timeliness of an OUT as the specification words it.
ExpectedOutStatus(p, tod) ==
    IF tod < p.end_time - p.early_checkout_grace_minutes THEN "EARLY"
    ELSE IF tod > p.end_time + VeryLateCheckoutMinutes THEN "LATE"
    ELSE "ON_TIME"

\* C5: an IN from inside the fence with a window is LATE after start + late
\* grace, EARLY more than 5 minutes before start, ON_TIME otherwise.
C5_CheckInTimeliness ==
    \A i \in Stored :
        ( /\ checkins[i].type = "IN"
          /\ InsideFence(checkins[i])
          /\ checkins[i].period # NoPeriod )
        => checkins[i].status =
              ExpectedInStatus(periods[checkins[i].period], checkins[i].validated_at)

\* C6: an OUT from inside the fence with a window is EARLY before end - early
\* grace, LATE more than 60 minutes after end, ON_TIME otherwise.
C6_CheckOutTimeliness ==
    \A i \in Stored :
        ( /\ checkins[i].type = "OUT"
          /\ InsideFence(checkins[i])
          /\ checkins[i].period # NoPeriod )
        => checkins[i].status =
              ExpectedOutStatus(periods[checkins[i].period], checkins[i].validated_at)

OutsideGraceInterval(p, tod) ==
    \/ tod < p.start_time - p.late_checkin_grace_minutes
    \/ tod > p.end_time + p.early_checkout_grace_minutes

\* C7: an event with a window, from inside the fence, is INVALID_TIME exactly
\* when its time of day is outside [start - late grace, end + early grace].
C7_InvalidTimeIffOutsideGraceInterval ==
    \A i \in Stored :
        ( /\ checkins[i].period # NoPeriod
          /\ InsideFence(checkins[i]) )
        => ( checkins[i].status = "INVALID_TIME"
             <=> OutsideGraceInterval(periods[checkins[i].period],
                                      checkins[i].validated_at) )

\* C8: the check-in view attaches a window only if it applies (active,
\* weekday, time in [start - late grace, end]) and attaches none exactly
\* when no window of the group applies.
C8_ResolutionMatchesWindowTest ==
    [][ (Inserted /\ NewRow.via = "check_in")
        => /\ NewRow.period # NoPeriod =>
                /\ NewRow.period \in GroupPeriodIds(NewRow.attendance_group)
                /\ WindowApplies(periods[NewRow.period], now)
           /\ NewRow.period = NoPeriod <=>
                \A q \in GroupPeriodIds(NewRow.attendance_group) :
                    ~WindowApplies(periods[q], now) ]_vars

\* The windows of group g that the period loop of check_in accepts now.
MatchingNow(g) == {q \in ActivePeriodIds(g) : PeriodMatchesNow(periods[q])}

AttachesEarliestStart ==
    (Inserted /\ NewRow.via = "check_in" /\ NewRow.period # NoPeriod)
    => /\ NewRow.period \in MatchingNow(NewRow.attendance_group)
       /\ \A q \in MatchingNow(NewRow.attendance_group) :
             periods[NewRow.period].start_time <= periods[q].start_time

ResolutionIsDeterministic(g) ==
    \A o1, o2 \in PeriodOrders(g) : ApplicablePeriod(o1) = ApplicablePeriod(o2)

DistinctMatchingStarts(g) ==
    \A p, q \in MatchingNow(g) :
        p # q => periods[p].start_time # periods[q].start_time

CheckOutAfterEnd ==
    /\ last' # last
    /\ last'.kind = "OUT"
    /\ last'.checkin_id \in Stored
    /\ LET c == checkins[last'.checkin_id]
       IN  /\ c.type = "IN" /\ c.employee = last'.employee
           /\ c.timestamp.day = now.day
           /\ c.status = "ON_TIME"
           /\ c.period # NoPeriod
           /\ is_within_radius(groups[c.attendance_group],
                               last'.latitude, last'.longitude)
           /\ now.tod > periods[c.period].end_time
           /\ now.tod <= periods[c.period].end_time + VeryLateCheckoutMinutes

\* C10: such a check-out is accepted and stored ON_TIME, and when the
\* check-in is the day's only event the day's hours are OUT - IN.
C10_CheckOutAfterEndIsAccepted ==
    [][ CheckOutAfterEnd
        => /\ last'.resp = "success"
           /\ Inserted
           /\ NewRow.status = "ON_TIME"
           /\ Len(today_checkins(checkins, last'.employee)) = 1 =>
                today_hours(checkins', last'.employee) =
                    now.tod - checkins[last'.checkin_id].timestamp.tod ]_vars

\* C11: a stored event keeps its outcome, its window and its distance through
\* every later operation (saving it again, editing the group, editing or
\* deactivating the period).
C11_StoredEventNeverChanges ==
    [][ \A i \in Stored :
          /\ checkins'[i].status = checkins[i].status
          /\ checkins'[i].period = checkins[i].period
          /\ checkins'[i].distance_from_location = checkins[i].distance_from_location
      ]_vars

\* C12: every stored event has an outcome among the five status choices,
\* whichever path stored it (check-in view, check-out view or a seeder).
C12_StatusIsAChoice ==
    \A i \in Stored : checkins[i].status \in CheckInStatus

\* A seeded IN stored LATE next to a check-out stored by the view.
C12_Witness ==
    \E i, j \in Stored :
        /\ checkins[i].via = "seed_checkins" /\ checkins[i].status = "LATE"
        /\ checkins[j].via = "check_out"

\* The context on screen is the one rendered for e at the present time.
Rendered(e) == context.employee = e /\ context.current_time = now

IsValidRow(c) == c.status \notin {"INVALID_LOCATION", "INVALID_TIME"}

AllValid(cs) == \A i \in 1..Len(cs) : IsValidRow(cs[i])

OneGroup(cs) ==
    \A i, j \in 1..Len(cs) : cs[i].attendance_group = cs[j].attendance_group

RECURSIVE GreedyMinutes(_, _, _)
\* The minutes of the pairs formed first-to-first: open holds the times of
\* the INs not yet paired, and each OUT closes the earliest of them.
GreedyMinutes(cs, i, open) ==
    IF i > Len(cs) THEN 0
    ELSE IF cs[i].type = "IN"
         THEN GreedyMinutes(cs, i + 1, Append(open, cs[i].timestamp.tod))
         ELSE IF open = <<>>
              THEN GreedyMinutes(cs, i + 1, open)
              ELSE (cs[i].timestamp.tod - Head(open))
                       + GreedyMinutes(cs, i + 1, Tail(open))

\* C13: on a day of valid events at one group, the hours shown are the sum
\* over the pairs formed by matching each IN with the next OUT after it, and
\* an IN followed by a later OUT gives the day some hours.
C13_HoursAreGreedyPairs ==
    \A e \in Employees :
        LET today == today_checkins(checkins, e)
        IN  (Rendered(e) /\ AllValid(today) /\ OneGroup(today))
            => /\ context.hours_worked =
                      round_tenths(GreedyMinutes(today, 1, <<>>))
               /\ (\E i, j \in 1..Len(today) :
                      i < j /\ today[i].type = "IN" /\ today[j].type = "OUT")
                  => context.hours_worked > 0

\* C14: an event stored INVALID_LOCATION or INVALID_TIME is counted among the
\* day's events and leaves the day's hours as they were.
C14_InvalidEventAddsNoHours ==
    [][ (Inserted /\ ~IsValidRow(NewRow))
        => /\ Len(today_checkins(checkins', NewRow.employee)) =
                  Len(today_checkins(checkins, NewRow.employee)) + 1
           /\ today_hours(checkins', NewRow.employee) =
                  today_hours(checkins, NewRow.employee) ]_vars

\* The rows of one group among rows.
OfGroup(rows, g) == SelectSeq(rows, LAMBDA c : c.attendance_group = g)

\* C15: for every group where the employee has events today, the count, the
\* hours and the open/closed state shown are those of that group's events
\* alone, whatever the employee recorded at another group that day.
C15_SummaryReadsOneGroup ==
    \A e \in Employees :
        Rendered(e) =>
            \A g \in DOMAIN groups :
                Len(today_checkins(OfGroup(checkins, g), e)) > 0
                => LET mine == today_checkins(OfGroup(checkins, g), e)
                   IN  /\ context.total_checkins = Len(mine)
                       /\ context.hours_worked =
                              round_tenths(today_hours(OfGroup(checkins, g), e))
                       /\ context.is_checked_in = (mine[Len(mine)].type = "IN")

\* C16: the summary of a day (employee, group, date) is marked late exactly
\* when a valid IN of that day was stored LATE.
C16_LateDayIffLateIn ==
    \A e \in Employees : \A g \in DOMAIN groups : \A d \in Days :
        (\E k \in 1..Len(summaries) :
            /\ summaries[k].employee = e
            /\ summaries[k].attendance_group = g
            /\ summaries[k].date = d
            /\ summaries[k].is_late)
        <=> (\E i \in Stored :
                /\ checkins[i].employee = e
                /\ checkins[i].attendance_group = g
                /\ checkins[i].timestamp.day = d
                /\ checkins[i].type = "IN"
                /\ IsValidRow(checkins[i])
                /\ checkins[i].status = "LATE")

\* e has a valid IN on day d.
HasValidIn(e, d) ==
    \E i \in Stored :
        /\ checkins[i].employee = e
        /\ checkins[i].timestamp.day = d
        /\ checkins[i].type = "IN"
        /\ IsValidRow(checkins[i])

\* C17: today is shown as attended exactly when it has a valid IN, and the
\* days counted present this week are the days with a valid IN.
C17_PresentIffValidIn ==
    \A e \in Employees :
        Rendered(e) =>
            /\ context.today_status <=> HasValidIn(e, now.day)
            /\ context.days_present =
                   Cardinality({d \in week_start..now.day : HasValidIn(e, d)})

\* rows without the row of that id.
WithoutRow(rows, id) == SelectSeq(rows, LAMBDA c : c.id # id)

\* The last of e's events today is a valid IN: no OUT follows it.
TrailingValidIn(e) ==
    /\ Len(today_checkins(checkins, e)) > 0
    /\ LET today == today_checkins(checkins, e)
       IN  today[Len(today)].type = "IN" /\ IsValidRow(today[Len(today)])

\* C18: a valid IN that no OUT follows makes the day attended and leaves the
\* hours what they are without it; a day with that IN alone shows 0 hours.
C18_TrailingInPresentNoHours ==
    \A e \in Employees :
        (Rendered(e) /\ TrailingValidIn(e))
        => LET today == today_checkins(checkins, e)
           IN  /\ context.today_status
               /\ context.days_present >= 1
               /\ context.hours_worked =
                      round_tenths(today_hours(
                          WithoutRow(checkins, today[Len(today)].id), e))
               /\ Len(today) = 1 => context.hours_worked = 0

\* Rendered after IN, OUT, IN on one day, and rendered on a single IN.
C18_Witness ==
    /\ Rendered(1) /\ TrailingValidIn(1)
    /\ Len(today_checkins(checkins, 1)) = 3
    /\ context.hours_worked > 0
    /\ context.today_status

\* Two rendered contexts show the same day aggregate (everything but the
\* time of rendering).
SameAggregate(a, b) ==
    /\ a.hours_worked = b.hours_worked
    /\ a.total_checkins = b.total_checkins
    /\ a.first_checkin = b.first_checkin
    /\ a.last_checkin = b.last_checkin
    /\ a.today_status = b.today_status
    /\ a.is_checked_in = b.is_checked_in
    /\ a.days_present = b.days_present
    /\ a.total_days = b.total_days

\* C19: rendering the dashboard stores nothing, and rendering it again for
\* the same employee on the same day over the same events shows the same
\* aggregate as the rendering before.
C19_RecomputeIsIdempotent ==
    [][ context' # context
        => /\ UNCHANGED <<checkins, summaries, periods, groups, memberships, users>>
           /\ (/\ context.employee = context'.employee
               /\ context.current_time.day = context'.current_time.day)
              => SameAggregate(context, context') ]_vars

\* A context with hours, rendered earlier today and still shown after the
\* clock has moved on: the next rendering recomputes the same events.
C19_Witness ==
    /\ context.employee = 1
    /\ context.current_time.day = now.day
    /\ Later(context.current_time, now)
    /\ context.hours_worked > 0
    /\ context.total_checkins = 2

\* The distance in millimetres from the centre of group g to a point.
FromCentre(g, lat, lon) ==
    haversine(groups[g].longitude, groups[g].latitude, lon, lat)

\* C20: a check-in is turned away as outside the area exactly when the
\* haversine distance from the centre exceeds the radius; at a distance equal
\* to the radius, and at the centre, it goes through the radius test.
C20_WithinIffDistanceAtMostRadius ==
    [][ \A g \in GroupIds :
          /\ (last' # last /\ last'.kind = "IN" /\ last'.resp = "not_in_area")
             => FromCentre(g, last'.latitude, last'.longitude)
                    > groups[g].radius * 1000
          /\ (last' # last /\ last'.kind = "IN"
                /\ last'.resp = "already_checked_in")
             => FromCentre(g, last'.latitude, last'.longitude)
                    <= groups[g].radius * 1000
          /\ \A r \in Reqs :
                (reqs[r].pc = "idle" /\ reqs'[r].pc = "create"
                    /\ reqs'[r].group = g)
                => FromCentre(g, reqs'[r].latitude, reqs'[r].longitude)
                       <= groups[g].radius * 1000 ]_vars

\* A check-in sent from the point exactly one radius from the centre was
\* let through and stored.
C20_Witness ==
    /\ last.resp = "success"
    /\ <<last.latitude, last.longitude>> = PointOnFence
    /\ \E i \in Stored :
          /\ <<checkins[i].latitude, checkins[i].longitude>> = PointOnFence
          /\ checkins[i].distance_from_location =
                 groups[checkins[i].attendance_group].radius * 1000
          /\ checkins[i].status = "ON_TIME"

\* C21: every row, as it is stored, carries the haversine distance from the
\* centre of its group to its reported coordinate (a coordinate of 0
\* included), and its outcome is the one the radius test gives on that
\* distance.
C21_StoredRowCarriesDistance ==
    [][ Inserted
        => /\ NewRow.distance_from_location =
                  FromCentre(NewRow.attendance_group, NewRow.latitude,
                             NewRow.longitude)
           /\ (NewRow.status = "INVALID_LOCATION")
                  <=> (NewRow.distance_from_location
                          > groups[NewRow.attendance_group].radius * 1000) ]_vars

\* C22: no event, IN or OUT, is stored for a group that is inactive, and a
\* check-out naming a check-in of an inactive group is answered not found.
C22_NoEventForInactiveGroup ==
    [][ /\ Inserted => groups[NewRow.attendance_group].is_active
        /\ ( /\ last' # last /\ last'.kind = "OUT"
             /\ last'.checkin_id \in Stored
             /\ ~groups[checkins[last'.checkin_id].attendance_group].is_active )
           => last'.resp = "failed_not_found" ]_vars

\* C23: no two AttendanceSummary rows have the same employee, group and date.
C23_OneSummaryPerKey ==
    \A i, j \in 1..Len(summaries) :
        ( /\ summaries[i].employee = summaries[j].employee
          /\ summaries[i].attendance_group = summaries[j].attendance_group
          /\ summaries[i].date = summaries[j].date )
        => i = j

\* A second row of a key that is already stored was refused.
C23_Witness ==
    /\ Len(summaries) >= 1
    /\ last.kind = "summary_add" /\ last.resp = "failed_unique"

GroupInBounds(g) ==
    /\ MinRadius <= g.radius /\ g.radius <= MaxRadius
    /\ 0 - MaxLatitude <= g.latitude /\ g.latitude <= MaxLatitude
    /\ 0 - MaxLongitude <= g.longitude /\ g.longitude <= MaxLongitude

\* C24: every stored group has its radius in 10..5000, its latitude in
\* [-90, 90] and its longitude in [-180, 180].
C24_GroupsInBounds ==
    \A g \in DOMAIN groups : GroupInBounds(groups[g])

\* Two groups stored at the extreme values of the three fields.
C24_Witness ==
    /\ Len(groups) = 2
    /\ groups[1].radius = MinRadius /\ groups[2].radius = MaxRadius
    /\ groups[2].latitude = MaxLatitude
    /\ groups[2].longitude = 0 - MaxLongitude

\* The check-ins of group g dated today.
TodayOfGroup(g) ==
    {i \in Stored : checkins[i].attendance_group = g
                    /\ checkins[i].timestamp.day = now.day}

\* The step is the group_delete request for g: it is the only step that
\* changes is_active of a group, and a refused request changes nothing.
Deactivated(g) == groups[g].is_active /\ ~groups'[g].is_active

C29_NoActivePeriodInInactiveGroup ==
    \A p \in 1..Len(periods) :
        periods[p].is_active => groups[periods[p].group].is_active

\* C26: a membership is active exactly when its removed_at is empty, and an
\* (employee, group) pair has at most one active membership.
C26_ActiveIffNotRemoved ==
    /\ \A i \in 1..Len(memberships) :
          memberships[i].is_active <=> memberships[i].removed_at = NoTime
    /\ \A i, j \in 1..Len(memberships) :
          ( /\ memberships[i].employee = memberships[j].employee
            /\ memberships[i].attendance_group = memberships[j].attendance_group
            /\ memberships[i].is_active /\ memberships[j].is_active )
          => i = j

\* The employee has an active membership in the group.
ActiveMember(e, g) == \E i \in MembershipRows(e, g) : memberships[i].is_active

\* C28: while the employee has no active membership in the group, no check-in
\* of the employee for that group gets past the group lookup and no IN event
\* is stored for that pair.
C28_RemovedEmployeeCannotCheckIn ==
    [][ /\ \A r \in Reqs :
              (reqs[r].pc = "idle" /\ reqs'[r].pc = "create")
              => ActiveMember(reqs'[r].employee, reqs'[r].group)
        /\ (Inserted /\ NewRow.type = "IN")
              => ActiveMember(NewRow.employee, NewRow.attendance_group) ]_vars

\* The events of type t of (e, g) on day d, in rows.
EventsOn(rows, e, g, d, t) ==
    {i \in 1..Len(rows) :
        /\ rows[i].employee = e /\ rows[i].attendance_group = g
        /\ rows[i].timestamp.day = d /\ rows[i].type = t}

\* C27: the check-in a stored check-out names is of today and has no OUT of
\* its group after it yet, and no day holds more OUT than IN events of one
\* employee and group.
C27_CheckOutClosesAnOpenCheckIn ==
    [][ (Inserted /\ NewRow.type = "OUT" /\ NewRow.via = "check_out")
        => LET original_checkin == checkins[last'.checkin_id]
           IN  /\ original_checkin.employee = NewRow.employee
               /\ original_checkin.timestamp.day = now.day
               /\ ~\E i \in Stored :
                     /\ checkins[i].type = "OUT"
                     /\ checkins[i].employee = NewRow.employee
                     /\ checkins[i].attendance_group = NewRow.attendance_group
                     /\ checkins[i].timestamp.day = now.day
                     /\ i > last'.checkin_id
               /\ Cardinality(EventsOn(checkins', NewRow.employee,
                                       NewRow.attendance_group, now.day, "OUT"))
                    <= Cardinality(EventsOn(checkins', NewRow.employee,
                                       NewRow.attendance_group, now.day, "IN"))
      ]_vars

\* C30: whenever the clock reads a time of day between a period's start_time
\* and end_time, is_within_checkin_time answers True for that period, whatever
\* its grace, also when start_time is fewer minutes after midnight than the grace.
C30_StartToEndIsInsideWindow ==
    \A p \in 1..Len(periods) :
        (periods[p].start_time <= now.tod /\ now.tod <= periods[p].end_time)
            => is_within_checkin_time(periods[p], <<>>)

====
